---- MODULE Spec2Model ----
(***************************************************************************)
(* A model of sitegen.py: the build pipeline of main (discover, load,      *)
(* preprocess, compile, write, copy static assets) and the directive       *)
(* preprocessor preprocess_md.                                             *)
(*                                                                         *)
(* Text is a sequence of lexical units, each a string: the delimiters      *)
(* "{{" and "}}", the keywords "title", "desc", "posts", the double quote, *)
(* the whitespace characters " " and "\n", the marker "[toc]" and plain    *)
(* words.  Paths are sequences of such units too: "/" and the extensions   *)
(* ".md", ".html" are units of their own.  Python's str operations         *)
(* (in, find, replace, strip) and re.search are modelled on these          *)
(* sequences as they work on characters.                                   *)
(***************************************************************************)
EXTENDS Integers, Sequences, FiniteSets, TLC

VARIABLES
    pc,             \* position of main: the statement about to run
    srcdir,         \* args.srcdir
    config,         \* Config read from config.json
    listing,        \* what listdir returns for each directory (the file system)
    content,        \* what open(path).read() returns for each content file
    tree,           \* the FileTree built by build_file_tree
    files,          \* the File objects, by identity
    posts,          \* state.posts: identities of File objects
    static_pages,   \* state.static_pages
    include_before, \* state.include_before
    include_after,  \* state.include_after
    idx,            \* index of the running loop
    rendered,       \* value of render_md(file.md) inside compile_files' loop body
    out,            \* the output directory: the paths in it and their data
    stage,          \* lifecycle stage of each File object
    events,         \* log of the posts-index substitutions made
    runs            \* outcomes of the preprocess_md calls made on a record

vars == << pc, srcdir, config, listing, content, tree, files, posts,
           static_pages, include_before, include_after, idx, rendered, out,
           stage, events, runs >>

----------------------------------------------------------------------------
(* Bounds *)

\* A document is the concatenation of at most MaxFrags fragments.
MaxFrags == 3

----------------------------------------------------------------------------
(* Python str operations on sequences *)

\* Python's None where a str may stand: equal to no str
None == << "<None>" >>

Max(S) == CHOOSE x \in S : \A y \in S : y <= x

Min(S) == CHOOSE x \in S : \A y \in S : x <= y

\* the least element of S, or none when S is empty
MinOr(S, none) == IF S = {} THEN none ELSE Min(S)

\* the greatest element of S, or none when S is empty
MaxOr(S, none) == IF S = {} THEN none ELSE Max(S)

\* s[i:i+len(sub)] == sub
StartsAt(s, i, sub) ==
    /\ i >= 1
    /\ i + Len(sub) - 1 <= Len(s)
    /\ \A k \in 1..Len(sub) : s[i + k - 1] = sub[k]

\* sub in s
str_contains(s, sub) == \E i \in 1..(Len(s) + 1) : StartsAt(s, i, sub)

\* s.find(sub): first index (from 1), 0 when absent
str_find(s, sub) == MinOr({i \in 1..(Len(s) + 1) : StartsAt(s, i, sub)}, 0)

\* s[:i-1] + new + s[i+n:], the occurrence at i replaced (s itself for i = 0)
splice(s, i, n, new) ==
    IF i = 0 THEN s ELSE SubSeq(s, 1, i - 1) \o new \o SubSeq(s, i + n, Len(s))

\* A plausible slip: s.replace(old, new, 1), only the first occurrence.
str_replace_first(s, old, new) ==
    IF old = << >> THEN s ELSE splice(s, str_find(s, old), Len(old), new)

\* s.replace(old, new): every non-overlapping occurrence, left to right
\* (old is never empty in this program)
str_replace(s, old, new) ==
    LET from[i \in 1..(Len(s) + 1)] ==      \* s[i:].replace(old, new)
            IF i > Len(s) THEN << >>
            ELSE IF StartsAt(s, i, old)
                 THEN new \o from[i + Len(old)]
                 ELSE << s[i] >> \o from[i + 1]
    IN IF old = << >> THEN s ELSE from[1]

\* \s of the re module
IsSpace(c) == c \in {" ", "\n", "\t"}

\* s[first:last+1], empty when there is no first
slice(s, first, last) == IF first = 0 THEN << >> ELSE SubSeq(s, first, last)

\* s.strip()
str_strip(s) ==
    slice(s, MinOr({i \in 1..Len(s) : ~IsSpace(s[i])}, 0),
             MaxOr({i \in 1..Len(s) : ~IsSpace(s[i])}, 0))

\* the first index >= i that holds no whitespace (Len(s)+1 when there is none)
SkipSpace(s, i) == MinOr({j \in i..Len(s) : ~IsSpace(s[j])}, Len(s) + 1)

\* s[i] is the unit c
IsAt(s, i, c) == i >= 1 /\ i <= Len(s) /\ s[i] = c

----------------------------------------------------------------------------
(* The directive patterns of preprocess_md *)

Q == "\""

NoMatch == [found |-> FALSE]

\* m[0] = md[i..e], m[1] = md[q+1..j-1]
Match(md, i, e, q, j) ==
    [found |-> TRUE, m0 |-> SubSeq(md, i, e), m1 |-> SubSeq(md, q + 1, j - 1)]

\* '"(.*)"\s*}}' from the opening quote at q: (.*) is greedy and does not
\* cross a newline, so the closing quote is the last one on the line that
\* \s*}} follows (0: there is none)
ClosingQuote(md, q) ==
    MaxOr({j \in (q + 1)..Len(md) :
              /\ md[j] = Q
              /\ \A x \in (q + 1)..(j - 1) : md[x] # "\n"
              /\ IsAt(md, SkipSpace(md, j + 1), "}}")}, 0)

ArgFromQuote(md, i, q, j) ==
    IF j = 0 THEN NoMatch ELSE Match(md, i, SkipSpace(md, j + 1), q, j)

\* '\s+"(.*)"\s*}}' after the keyword at k, with q the first index after the
\* whitespace that follows it
ArgFromKeyword(md, i, k, q) ==
    IF q = k + 1 \/ ~IsAt(md, q, Q) THEN NoMatch
    ELSE ArgFromQuote(md, i, q, ClosingQuote(md, q))

\* '(?:kw)\s+"(.*)"\s*}}' at k
ArgFromOpen(md, i, kw, k) ==
    IF ~IsAt(md, k, kw) THEN NoMatch
    ELSE ArgFromKeyword(md, i, k, SkipSpace(md, k + 1))

\* '{{\s*(?:kw)\s+"(.*)"\s*}}' anchored at i
ArgPatternAt(md, i, kw) ==
    IF ~IsAt(md, i, "{{") THEN NoMatch
    ELSE ArgFromOpen(md, i, kw, SkipSpace(md, i + 1))

\* '\s*}}' after the keyword posts, with e the first index after the whitespace
PostsFromKeyword(md, i, e) ==
    IF ~IsAt(md, e, "}}") THEN NoMatch ELSE Match(md, i, e, 1, 1)

\* '(?:posts)\s*}}' at k
PostsFromOpen(md, i, k) ==
    IF ~IsAt(md, k, "posts") THEN NoMatch
    ELSE PostsFromKeyword(md, i, SkipSpace(md, k + 1))

\* "{{\s*(?:posts)\s*}}" anchored at i
PostsPatternAt(md, i) ==
    IF ~IsAt(md, i, "{{") THEN NoMatch
    ELSE PostsFromOpen(md, i, SkipSpace(md, i + 1))

\* the pattern of directive kw anchored at i (i = 0: nowhere)
PatternAt(md, i, kw) ==
    IF i = 0 THEN NoMatch
    ELSE IF kw = "posts" THEN PostsPatternAt(md, i)
    ELSE ArgPatternAt(md, i, kw)

\* re.search(pat, md): the leftmost match
re_search(kw, md) ==
    PatternAt(md, MinOr({i \in 1..Len(md) : PatternAt(md, i, kw).found}, 0), kw)

\* A plausible slip: no substring pre-check, the pattern is always tried.
has_directive_always(md, kw) == TRUE

\* '"{{ kw" in md or "{{kw" in md'
has_directive(md, kw) ==
    str_contains(md, << "{{", " ", kw >>) \/ str_contains(md, << "{{", kw >>)

----------------------------------------------------------------------------
(* preprocess_md and its nested functions.  A call returns the error message
   ("" when Ok), the text, the metadata as the call leaves it (title and desc
   write file_metadata in place, also when a later directive fails), and a
   log of the directive functions that ran. *)

ErrTitle == "Invalid match on 'title'"
ErrDesc == "Invalid match on 'desc'"
ErrPosts == "Invalid match on 'posts'"

\* p.path[i:] for i = p.path.find("/"); find gives -1 when absent: path[-1:]
path_from(path, i) == SubSeq(path, IF i = 0 THEN Len(path) ELSE i, Len(path))

\* url = p.path[p.path.find("/"):].replace(".md", ".html")
post_url(path) ==
    str_replace(path_from(path, str_find(path, << "/" >>)),
                << ".md" >>, << ".html" >>)

PostOpen == "<div class=\"post\">\n<div class=\"post-heading\">\n<a href=\""
PostMid1 == "\">"
PostMid2 == "</a>\n</div>\n<div class=\"post-desc\">\n"
PostClose == "\n</div>\n</div>\n"
PostsOpen == "<div class=\"posts\">"
PostsClose == "</div>"

\* one pass of the loop body 'posts_html += ...' for post p
post_entry(p) ==
    << PostOpen >> \o post_url(p.path) \o << PostMid1 >> \o p.metadata.title
        \o << PostMid2 >> \o p.metadata.desc \o << PostClose >>

\* A plausible slip: the index lists the posts last to first.
posts_entries_reversed(ps) ==
    LET upto[n \in 0..Len(ps)] ==
            IF n = 0 THEN << >> ELSE post_entry(ps[n]) \o upto[n - 1]
    IN upto[Len(ps)]

\* the loop 'for p in state.posts' over the File objects ps
posts_entries(ps) ==
    LET upto[n \in 0..Len(ps)] ==
            IF n = 0 THEN << >> ELSE upto[n - 1] \o post_entry(ps[n])
    IN upto[Len(ps)]

\* posts_html after the loop and the wrapping
posts_html(ps) == << PostsOpen >> \o posts_entries(ps) \o << PostsClose >>

\* what a call returns
Result(err, md, metadata, log) ==
    [err |-> err, md |-> md, metadata |-> metadata, log |-> log]

\* the entry of the log for a directive function that matched m in the
\* text before and returned the text after
Step(kind, before, m, after) ==
    [kind |-> kind, before |-> before, m0 |-> m.m0, m1 |-> m.m1, after |-> after]

\* title, once m = re.search(pat, md) is known
title_matched(md, metadata, m) ==
    IF ~m.found THEN Result(ErrTitle, md, metadata, << >>)
    ELSE Result("",
                << "# " >> \o m.m1 \o << "\n" >> \o str_replace(md, m.m0, << >>),
                [metadata EXCEPT !.title = m.m1],
                << Step("title", md, m,
                        << "# " >> \o m.m1 \o << "\n" >> \o str_replace(md, m.m0, << >>)) >>)

\* def title(s), called as title(md)
preprocess_md_title(md, metadata) ==
    title_matched(md, metadata, re_search("title", md))

\* desc, once m = re.search(pat, md) is known
desc_matched(md, metadata, m) ==
    IF ~m.found THEN Result(ErrDesc, md, metadata, << >>)
    ELSE Result("", str_replace(md, m.m0, << >>),
                [metadata EXCEPT !.desc = m.m1],
                << Step("desc", md, m, str_replace(md, m.m0, << >>)) >>)

\* def desc(s), called as desc(md)
preprocess_md_desc(md, metadata) ==
    desc_matched(md, metadata, re_search("desc", md))

\* posts, once m = re.search(pat, md) is known
posts_matched(ps, md, metadata, m) ==
    IF ~m.found THEN Result(ErrPosts, md, metadata, << >>)
    ELSE Result("", str_replace(md, m.m0, posts_html(ps)), metadata,
                << Step("posts", md, m, str_replace(md, m.m0, posts_html(ps))) >>)

\* def posts(s), called as posts(md); ps are the File objects of state.posts
preprocess_md_posts(ps, md, metadata) ==
    posts_matched(ps, md, metadata, re_search("posts", md))

\* the result d of a directive function, with the log of those before it
after(r, d) == [d EXCEPT !.log = r.log \o d.log]

\* state.posts as posts() reads it: file_metadata is the metadata object of
\* the File being preprocessed, so when that File is state.posts[self]
\* (self = 0: it is no post) what title and desc wrote is read there
posts_seen(ps, self, metadata) ==
    [i \in 1..Len(ps) |->
        IF i = self THEN [ps[i] EXCEPT !.metadata = metadata] ELSE ps[i]]

\* 'if "{{ title" in md or "{{title" in md: md = title(md).unwrap()';
\* unwrap() of an Err raises
run_title(r) ==
    IF has_directive(r.md, "title")
    THEN preprocess_md_title(r.md, r.metadata)
    ELSE r

\* 'if "{{ desc" in md or "{{desc" in md: md = desc(md).unwrap()'
run_desc(r) ==
    IF r.err # "" THEN r
    ELSE IF has_directive(r.md, "desc")
         THEN after(r, preprocess_md_desc(r.md, r.metadata))
         ELSE r

\* 'if "{{ posts" in md or "{{posts" in md: md = posts(md).unwrap()'
run_posts(ps, self, r) ==
    IF r.err # "" THEN r
    ELSE IF has_directive(r.md, "posts")
         THEN after(r, preprocess_md_posts(posts_seen(ps, self, r.metadata),
                                           r.md, r.metadata))
         ELSE r

\* 'if "[toc]" in md: md = md.replace("[toc]", "[TOC]")'
run_toc(md) ==
    IF str_contains(md, << "[toc]" >>)
    THEN str_replace(md, << "[toc]" >>, << "[TOC]" >>)
    ELSE md

\* the toc marker and 'md = md.strip()'
run_finish(r) ==
    IF r.err # "" THEN r ELSE [r EXCEPT !.md = str_strip(run_toc(r.md))]

\* preprocess_md(state, file_metadata, md)
preprocess_md(ps, self, file_metadata, md) ==
    run_finish(
        run_posts(ps, self,
            run_desc(run_title(Result("", md, file_metadata, << >>)))))

\* markdown.markdown(md, extensions=EXTENSIONS): the renderer is a library;
\* its output is the rendered form of md, told apart from md itself.
render_md(md) == << "<rendered>" >> \o md \o << "</rendered>" >>

----------------------------------------------------------------------------
(* Documents *)

\* The pieces documents are made of: directives in the spellings the
\* pattern allows, a directive with no argument, and plain text.
Fragments ==
    { << "{{", " ", "title", " ", Q, "T", Q, " ", "}}" >>,      \* {{ title "T" }}
      << "{{", "title", " ", Q, "U", Q, "}}" >>,                \* {{title "U"}}
      << "{{", " ", " ", "title", " ", Q, "T", Q, " ", "}}" >>, \* {{  title "T" }}
      << "{{", " ", "title", " ", "}}" >>,                      \* {{ title }}
      << "{{", " ", "desc", " ", Q, "D", Q, " ", "}}" >>,       \* {{ desc "D" }}
      << "{{", "\n", "desc", " ", Q, "E", Q, "}}" >>,           \* {{\ndesc "E"}}
      << "{{", "desc", " ", Q, "F", Q, "}}" >>,                 \* {{desc "F"}}
      << "{{", " ", "posts", " ", "}}" >>,                      \* {{ posts }}
      << "{{", "\t", "posts", "}}" >>,                          \* {{\tposts}}
      << "\n" >>,
      << "text" >>,
      << "[toc]" >> }

RECURSIVE DocsUpTo(_)
DocsUpTo(n) ==
    IF n = 0 THEN { << >> }
    ELSE LET shorter == DocsUpTo(n - 1)
         IN shorter \cup {d \o f : d \in shorter, f \in Fragments}

Docs == DocsUpTo(MaxFrags)

\* FileMetadata()
EmptyMetadata == [title |-> << >>, desc |-> << >>]

\* Config()
Config ==
    [posts_dir |-> None, include_before |-> None, include_after |-> None,
     static_src |-> None, static_dest |-> None]

\* FileTree(path=p)
FileTree(path) == [path |-> path, files |-> << >>, trees |-> << >>]

\* File(path=p, is_post=b)
File(path, is_post) ==
    [path |-> path, metadata |-> EmptyMetadata, is_post |-> is_post,
     md |-> << >>, html |-> << >>]

\* the File objects of state.posts
PostFiles == [i \in 1..Len(posts) |-> files[posts[i]]]

\* One call 'p.md = preprocess_md(state, p.metadata, p.md).unwrap()' on the
\* File object p: what the call returned, and the File after the statement.
\* The assignment to p.md does not happen when unwrap raises.
Returned(p, r) ==
    [rec |-> p, input |-> files[p].md, err |-> r.err, md |-> r.md,
     before |-> files[p].metadata, metadata |-> r.metadata, log |-> r.log,
     file |-> [files[p] EXCEPT !.metadata = r.metadata,
                               !.md = IF r.err = "" THEN r.md ELSE @]]

PreprocessCall(p) ==
    Returned(p, preprocess_md(PostFiles,
                              MinOr({i \in 1..Len(posts) : posts[i] = p}, 0),
                              files[p].metadata, files[p].md))

----------------------------------------------------------------------------
(* preprocess_md on one record: the statement of preprocess_pages' loop body
   applied to a File whose text is any document, with one post already
   preprocessed in state.posts; then the same statement once more on the text
   the first call produced. *)

SitePath == << "site" >>

APost ==
    [File(SitePath \o << "/", "posts", "/", "a", ".md" >>, TRUE)
        EXCEPT !.metadata = [title |-> << "A" >>, desc |-> << "about", " ", "a" >>],
               !.md = << "# ", "A", "\n", "text" >>]

MdInit ==
    /\ pc = "md"
    /\ srcdir = SitePath
    /\ config = Config
    /\ listing = << >>
    /\ content = << >>
    /\ tree = FileTree(SitePath)
    /\ \E d \in Docs :
         files = << APost,
                    [File(SitePath \o << "/", "index", ".md" >>, FALSE)
                        EXCEPT !.md = d] >>
    /\ posts = << 1 >>
    /\ static_pages = << 2 >>
    /\ include_before = << >>
    /\ include_after = << >>
    /\ idx = 1
    /\ rendered = << >>
    /\ out = << >>
    /\ stage = << >>
    /\ events = << >>
    /\ runs = << >>

MdRun(from, to, c) ==
    /\ pc = from
    /\ runs' = Append(runs, c)
    /\ files' = [files EXCEPT ![2] = c.file]
    /\ pc' = IF c.err = "" THEN to ELSE "md_raised"
    /\ UNCHANGED << srcdir, config, listing, content, tree, posts, static_pages,
                    include_before, include_after, idx, rendered, out, stage,
                    events >>

MdFirstRun == MdRun("md", "md_again", PreprocessCall(2))

MdSecondRun == MdRun("md_again", "md_done", PreprocessCall(2))

MdNext == MdFirstRun \/ MdSecondRun

MdSpec == MdInit /\ [][MdNext]_vars

----------------------------------------------------------------------------
(* Properties of preprocess_md, over MdSpec *)

\* the directive functions that ran in call c, by kind
StepsOf(c, kinds) == {i \in 1..Len(c.log) : c.log[i].kind \in kinds}

\* the places of md where a directive token of keyword kw opens, by the
\* grammar: "{{", optional whitespace, the keyword
TokenOpens(md, kw) ==
    {i \in 1..Len(md) :
        /\ md[i] = "{{"
        /\ SkipSpace(md, i + 1) <= Len(md)
        /\ md[SkipSpace(md, i + 1)] = kw}

has_token(md, kw) == TokenOpens(md, kw) # {}

\* a title or desc token that the pattern does not match where it opens
Malformed(md) ==
    \E kw \in {"title", "desc"} :
        \E i \in TokenOpens(md, kw) : ~ArgPatternAt(md, i, kw).found

\* C6 (as claimed): a document that holds a title or desc directive token
\* with no well-formed quoted argument makes the call fail, and the record's
\* text stays what it was.
C6_MalformedDirectiveFails ==
    \A i \in 1..Len(runs) :
        Malformed(runs[i].input) =>
            /\ runs[i].err \in {ErrTitle, ErrDesc}
            /\ runs[i].file.md = runs[i].input

\* preprocess_md without the substring tests: each directive function is
\* called when the text holds a token of its keyword by the grammar
always_title(r) ==
    IF has_token(r.md, "title") THEN preprocess_md_title(r.md, r.metadata) ELSE r

always_desc(r) ==
    IF r.err # "" THEN r
    ELSE IF has_token(r.md, "desc")
         THEN after(r, preprocess_md_desc(r.md, r.metadata))
         ELSE r

always_posts(ps, r) ==
    IF r.err # "" THEN r
    ELSE IF has_token(r.md, "posts")
         THEN after(r, preprocess_md_posts(ps, r.md, r.metadata))
         ELSE r

always_match(ps, file_metadata, md) ==
    run_finish(
        always_posts(ps,
            always_desc(always_title(Result("", md, file_metadata, << >>)))))

\* C10 (as claimed): the substring pre-check is only an optimisation: every
\* call gives what the same body gives when each directive is detected by
\* the grammar of its token instead.
C10_PrecheckIsOnlyOptimisation ==
    \A i \in 1..Len(runs) :
        LET c == runs[i]
            ref == always_match(PostFiles, c.before, c.input)
        IN /\ c.err = ref.err
           /\ c.metadata = ref.metadata
           /\ c.err = "" => c.md = ref.md

\* the spans of s that s.replace(old, ...) replaces, by their first index
ReplacedFrom(s, old, i) ==
    LET from[k \in 1..(Len(s) + 1)] ==
            IF k > Len(s) THEN {}
            ELSE IF StartsAt(s, k, old)
                 THEN {k} \cup from[k + Len(old)]
                 ELSE from[k + 1]
    IN from[i]

\* the well-formed tokens of kind e.kind in the text step e started from
\* that open after the first match ends
LaterTokens(e) ==
    LET first == str_find(e.before, e.m0)
    IN {i \in (first + Len(e.m0))..Len(e.before) :
            PatternAt(e.before, i, e.kind).found}

\* C9 (as claimed): of two tokens of one directive kind only the first is
\* processed: a token that opens after the first match is still in the
\* output text.
C9_SecondOccurrenceUntouched ==
    \A r \in 1..Len(runs) :
        runs[r].err = "" =>
            \A k \in 1..Len(runs[r].log) :
                LET e == runs[r].log[k] IN
                \A i \in LaterTokens(e) :
                    str_contains(runs[r].md, PatternAt(e.before, i, e.kind).m0)

\* what step e put in the place of the matched text, and in front of the text
Substitute(e) == IF e.kind = "posts" THEN posts_html(PostFiles) ELSE << >>
Prefix(e) == IF e.kind = "title" THEN << "# " >> \o e.m1 \o << "\n" >> ELSE << >>

\* the later tokens of step e that no replaced span overlaps
Untouched(e) ==
    LET spans == ReplacedFrom(e.before, e.m0, 1) IN
    {i \in LaterTokens(e) :
        LET t == PatternAt(e.before, i, e.kind).m0 IN
        \A b \in spans : b + Len(e.m0) - 1 < i \/ i + Len(t) - 1 < b}

\* C9 (amended): each directive function takes the leftmost match of its
\* pattern only (its argument alone becomes the title or description), but
\* it substitutes every occurrence of the matched text: a second token with
\* the same text is substituted too, and a later token stays in the text the
\* function returns only when no occurrence of the matched text overlaps it.
C9_FirstMatchEveryOccurrence ==
    \A r \in 1..Len(runs) :
        \A k \in 1..Len(runs[r].log) :
            LET e == runs[r].log[k]
                n == Cardinality(ReplacedFrom(e.before, e.m0, 1))
                first == PatternAt(e.before, Min(TokenOpens(e.before, e.kind)
                             \cap {i \in 1..Len(e.before) :
                                      PatternAt(e.before, i, e.kind).found}), e.kind)
            IN /\ n >= 1
               /\ e.m0 = first.m0
               /\ e.m1 = first.m1
               /\ Len(e.after) = Len(Prefix(e)) + Len(e.before)
                                   + n * (Len(Substitute(e)) - Len(e.m0))
               /\ \A i \in Untouched(e) :
                     str_contains(e.after, PatternAt(e.before, i, e.kind).m0)
               /\ e.kind = "title" /\ StepsOf(runs[r], {"title"}) = {k}
                     => runs[r].metadata.title = first.m1
               /\ e.kind = "desc" => runs[r].metadata.desc = first.m1

\* C9 witness: a directive function ran on a text that held its matched
\* text twice and a differently spelled token of the same kind after it.
C9_Witness ==
    \E r \in 1..Len(runs) : \E k \in 1..Len(runs[r].log) :
        LET e == runs[r].log[k] IN
        /\ Cardinality(ReplacedFrom(e.before, e.m0, 1)) >= 2
        /\ Untouched(e) # {}

Heading == "# "

HeadingCount(md) == Cardinality({i \in 1..Len(md) : md[i] = Heading})

\* C8 (as claimed): the second call on a text the first call produced leaves
\* the description alone and prepends no second heading.
C8_SecondRunIsNoOp ==
    Len(runs) = 2 =>
        /\ runs[2].metadata.desc = runs[1].metadata.desc
        /\ StepsOf(runs[2], {"title", "desc"}) = {}
        /\ HeadingCount(runs[2].file.md) = HeadingCount(runs[1].file.md)

\* the text holds none of the four strings the title and desc pre-checks
\* look for
NoTitleDescLeft(md) ==
    /\ ~str_contains(md, << "{{", " ", "title" >>)
    /\ ~str_contains(md, << "{{", "title" >>)
    /\ ~str_contains(md, << "{{", " ", "desc" >>)
    /\ ~str_contains(md, << "{{", "desc" >>)

\* C8 (amended): when the text the first call produced holds no title or
\* desc token that the pre-check detects, the second call runs neither title
\* nor desc: metadata is unchanged, no heading is prepended and no title or
\* desc error is raised.  (A second token of the same kind that the first
\* call left in the text is processed by the second call.)
C8_SecondRunNoOpWhenNoTokenLeft ==
    Len(runs) = 2 /\ NoTitleDescLeft(runs[1].file.md) =>
        /\ runs[2].metadata = runs[1].metadata
        /\ StepsOf(runs[2], {"title", "desc"}) = {}
        /\ runs[2].err \notin {ErrTitle, ErrDesc}
        /\ HeadingCount(runs[2].file.md) = HeadingCount(runs[1].file.md)

\* C8 witness: both title and desc ran in the first call, their tokens are
\* gone, and the second call was made.
C8_Witness ==
    /\ Len(runs) = 2
    /\ NoTitleDescLeft(runs[1].file.md)
    /\ StepsOf(runs[1], {"title"}) # {}
    /\ StepsOf(runs[1], {"desc"}) # {}

----------------------------------------------------------------------------
(* The file system a run starts from *)

\* The posts directory holds MaxPosts post files.
MaxPosts == 2

OutDir == << "out" >>

\* os.path.join(a, b) for a str b
path_join(a, b) ==
    IF b # << >> /\ b[1] = "/" THEN b
    ELSE IF a = << >> \/ a[Len(a)] = "/" THEN a \o b
    ELSE a \o << "/" >> \o b

\* the roots a run is started on: site, ./site and site/
SrcDirs == { << "site" >>, << ".", "/", "site" >>, << "site", "/" >> }

ConfigName == << "config", ".json" >>
HeaderName == << "header", ".html" >>
StaticName == << "static" >>
IndexName == << "index", ".md" >>
PostsName == << "posts" >>
DraftsName == << "drafts" >>
DraftName == << "c", ".md" >>
StyleName == << "style", ".css" >>

\* the i-th post file is named <i>.md
PostName(i) == << ToString(i), ".md" >>

\* the children of the posts directory: the post files, with the directory
\* drafts after the first of them
PostsChildren ==
    << PostName(1), DraftsName >> \o [i \in 1..(MaxPosts - 1) |-> PostName(i + 1)]

Reverse(seq) == [i \in 1..Len(seq) |-> seq[Len(seq) + 1 - i]]

\* site/: config.json header.html static/ index.md posts/
\* site/posts/: the post files and drafts/;  site/posts/drafts/: c.md
\* listdir gives the children of posts/ in either order.
Listings(root) ==
    LET postsdir == path_join(root, PostsName)
        draftsdir == path_join(postsdir, DraftsName)
        staticdir == path_join(root, StaticName)
        dirs == {root, postsdir, draftsdir, staticdir}
    IN { [d \in dirs |->
            IF d = root
            THEN << ConfigName, HeaderName, StaticName, IndexName, PostsName >>
            ELSE IF d = postsdir THEN order
            ELSE IF d = draftsdir THEN << DraftName >>
            ELSE << StyleName >>]
         : order \in {PostsChildren, Reverse(PostsChildren)} }

\* the values of "posts dir" in config.json
PostsDirs == { PostsName, << "posts", "/", "drafts" >>, << "posts", "/" >> }

\* config.json: "static src" and "static dest" are both given or both left out
Configs ==
    { [posts_dir |-> pd, include_before |-> HeaderName, include_after |-> None,
       static_src |-> st, static_dest |-> st]
      : pd \in PostsDirs, st \in {None, StaticName} }

Text(t) == [readable |-> TRUE, text |-> t]
Unreadable == [readable |-> FALSE, text |-> << >>]

TitleDirective(t) == << "{{", " ", "title", " ", Q, t, Q, " ", "}}" >>
DescDirective(t) == << "{{", " ", "desc", " ", Q, "on", " ", t, Q, " ", "}}" >>
PostsDirective == << "{{", " ", "posts", " ", "}}" >>

\* what a post file holds: title and description; these and a posts index;
\* a title directive with no argument; or it cannot be read
PostDocs(t) ==
    { Text(TitleDirective(t) \o << "\n" >> \o DescDirective(t) \o << "\n", "text" >>),
      Text(TitleDirective(t) \o DescDirective(t) \o << "\n" >> \o PostsDirective),
      Text(<< "{{", " ", "title", " ", "}}", "\n", "text" >>),
      Unreadable }

\* what index.md holds
IndexDocs ==
    { Text(TitleDirective("Home") \o << "\n" >> \o PostsDirective \o << "\n", "[toc]" >>),
      Text(<< "text", "\n" >>),
      Text(<< "{{", " ", "posts", " ", "x", "}}" >>) }

DraftDoc == Text(TitleDirective("Draft") \o << "\n", "text" >>)

HeaderText == << "<header>" >>

\* config.json as read_config finds it: missing, or holding cfg
NoConfigFile == [readable |-> FALSE, json |-> Config]
ConfigFile(cfg) == [readable |-> TRUE, json |-> cfg]

\* the files of the run and what reading each gives
Contents(root) ==
    LET postsdir == path_join(root, PostsName)
        fixed == { path_join(root, IndexName),
                   path_join(path_join(postsdir, DraftsName), DraftName),
                   path_join(root, HeaderName),
                   path_join(root, ConfigName),
                   path_join(path_join(root, StaticName), StyleName) }
        postpaths == {path_join(postsdir, PostName(i)) : i \in 1..MaxPosts}
    IN { [f \in fixed \cup postpaths |->
            IF f = path_join(root, IndexName) THEN ix
            ELSE IF f = path_join(root, HeaderName) THEN Text(HeaderText)
            ELSE IF f = path_join(root, ConfigName) THEN cf
            ELSE IF f = path_join(path_join(root, StaticName), StyleName)
                 THEN Text(<< "css" >>)
            ELSE IF f \in postpaths
                 THEN pd[CHOOSE i \in 1..MaxPosts : f = path_join(postsdir, PostName(i))]
                 ELSE DraftDoc]
         : ix \in IndexDocs,
           cf \in {NoConfigFile} \cup {ConfigFile(c) : c \in Configs},
           pd \in {g \in [1..MaxPosts -> UNION {PostDocs(ToString(i)) : i \in 1..MaxPosts}] :
                     \A i \in 1..MaxPosts : g[i] \in PostDocs(ToString(i))} }

\* the output directory before the run: empty, or with the static directory
\* an earlier run copied there
StaticDest == path_join(OutDir, StaticName)
InitialOuts == { {}, {[path |-> StaticDest, data |-> << "assets" >>]} }

----------------------------------------------------------------------------
(* build_file_tree *)

\* isdir(p)
isdir(p) == p \in DOMAIN listing

\* A plausible slip: every file below the posts directory is a post.
is_post_dir_recursive(dir, root, cfg) ==
    StartsAt(dir, 1, path_join(root, cfg.posts_dir))

\* 'x = path_join(root, config.posts_dir)' and 'dir == x'
is_post_dir(dir, root, cfg) == dir = path_join(root, cfg.posts_dir)

\* the list 'excluded'
excluded(cfg) ==
    { ConfigName, cfg.include_before, cfg.include_after, cfg.static_src }

\* build_file_tree(dir, root, config): the loop over listdir(dir) is
\* build_children, from the names still to visit and the tree so far.  Every
\* path listed is a directory here, so no call returns Err.
RECURSIVE build_file_tree(_, _, _), build_children(_, _, _, _, _)
build_children(dir, root, cfg, names, t) ==
    IF names = << >> THEN t
    ELSE LET fname == Head(names)
             p == path_join(dir, fname)
         IN IF fname \in excluded(cfg)
            THEN build_children(dir, root, cfg, Tail(names), t)
            ELSE IF isdir(p)
                 THEN build_children(dir, root, cfg, Tail(names),
                          [t EXCEPT !.trees = Append(@, build_file_tree(p, root, cfg))])
                 ELSE build_children(dir, root, cfg, Tail(names),
                          [t EXCEPT !.files =
                              Append(@, File(p, is_post_dir(dir, root, cfg)))])

build_file_tree(dir, root, cfg) ==
    build_children(dir, root, cfg, listing[dir], FileTree(dir))

\* The order in which process_pages(state, tree) visits the File objects:
\* the files of a tree, then its subtrees in turn.
RECURSIVE process_pages_order(_), process_subtrees(_)
process_subtrees(ts) ==
    IF ts = << >> THEN << >>
    ELSE process_pages_order(Head(ts)) \o process_subtrees(Tail(ts))

process_pages_order(t) == t.files \o process_subtrees(t.trees)

----------------------------------------------------------------------------
(* main *)

\* The lifecycle of a record, by the statement that has run on it:
\* File(...) in build_file_tree, 'file.md = load_md_file(...)', 'p.md =
\* preprocess_md(...)', render_md(file.md), 'file.html = ...'.
Stages == << "Discovered", "Loaded", "Preprocessed", "Rendered", "Assembled" >>

Rank(st) == CHOOSE i \in 1..Len(Stages) : Stages[i] = st

\* A plausible slip: main does not call preprocess_pages.
main_after_no_preprocess(step) ==
    CASE step = "read_config" -> "load_before_after_files"
      [] step = "load_before_after_files" -> "build_file_tree"
      [] step = "build_file_tree" -> "process_pages"
      [] step = "process_pages" -> "compile_files"
      [] step = "preprocess_pages" -> "compile_files"
      [] step = "compile_files" -> "write_files"
      [] step = "write_files" -> "copytree"
      [] step = "copytree" -> "return_0"

\* the statement of main that follows each call
main_after(step) ==
    CASE step = "read_config" -> "load_before_after_files"
      [] step = "load_before_after_files" -> "build_file_tree"
      [] step = "build_file_tree" -> "process_pages"
      [] step = "process_pages" -> "preprocess_pages"
      [] step = "preprocess_pages" -> "compile_files"
      [] step = "compile_files" -> "write_files"
      [] step = "write_files" -> "copytree"
      [] step = "copytree" -> "return_0"

\* A plausible slip: static pages are preprocessed before posts.
preprocess_order_pages_first(ps, sp) == sp \o ps

\* 'state.posts + state.static_pages' in preprocess_pages
preprocess_order(ps, sp) == ps \o sp

\* 'state.static_pages + state.posts' in compile_files and write_files
combined(ps, sp) == sp \o ps

Init ==
    /\ pc = "read_config"
    /\ srcdir \in SrcDirs
    /\ listing \in Listings(srcdir)
    /\ content \in Contents(srcdir)
    /\ out \in InitialOuts
    /\ config = Config
    /\ tree = FileTree(srcdir)
    /\ files = << >>
    /\ posts = << >>
    /\ static_pages = << >>
    /\ include_before = << >>
    /\ include_after = << >>
    /\ idx = 1
    /\ rendered = << >>
    /\ stage = << >>
    /\ events = << >>
    /\ runs = << >>

\* r_config = read_config(args.srcdir); on Err main prints it and returns 1
read_config ==
    /\ pc = "read_config"
    /\ LET f == content[path_join(srcdir, ConfigName)] IN
         IF f.readable
         THEN /\ config' = f.json
              /\ pc' = main_after("read_config")
         ELSE /\ config' = config
              /\ pc' = "return_1"
    /\ UNCHANGED << srcdir, listing, content, tree, files, posts, static_pages,
                    include_before, include_after, idx, rendered, out, stage,
                    events, runs >>

\* what open(path).read() gives for an include file; an exception is
\* swallowed and leaves the field as it was
read_include(name, old) ==
    IF name = None THEN old
    ELSE LET path == path_join(srcdir, name) IN
         IF path \in DOMAIN content /\ content[path].readable
         THEN content[path].text
         ELSE old

load_before_after_files ==
    /\ pc = "load_before_after_files"
    /\ include_before' = read_include(config.include_before, include_before)
    /\ include_after' = read_include(config.include_after, include_after)
    /\ pc' = main_after("load_before_after_files")
    /\ UNCHANGED << srcdir, config, listing, content, tree, files, posts,
                    static_pages, idx, rendered, out, stage, events, runs >>

\* r_tree = build_file_tree(args.srcdir, args.srcdir, config).  The File
\* objects are files; the tree keeps them as created.
build_tree ==
    /\ pc = "build_file_tree"
    /\ tree' = build_file_tree(srcdir, srcdir, config)
    /\ files' = process_pages_order(tree')
    /\ stage' = [i \in 1..Len(files') |-> "Discovered"]
    /\ idx' = 1
    /\ pc' = main_after("build_file_tree")
    /\ UNCHANGED << srcdir, config, listing, content, posts, static_pages,
                    include_before, include_after, rendered, out, events, runs >>

\* One pass of the loop of process_pages, on the idx-th File visited: it is
\* appended to its list, then loaded; unwrap raises when the file cannot be
\* read.
process_pages ==
    /\ pc = "process_pages"
    /\ idx <= Len(files)
    /\ posts' = IF files[idx].is_post THEN Append(posts, idx) ELSE posts
    /\ static_pages' = IF files[idx].is_post THEN static_pages
                       ELSE Append(static_pages, idx)
    /\ LET f == content[files[idx].path] IN
         IF f.readable
         THEN /\ files' = [files EXCEPT ![idx].md = f.text]
              /\ stage' = [stage EXCEPT ![idx] = "Loaded"]
              /\ idx' = IF idx = Len(files) THEN 1 ELSE idx + 1
              /\ pc' = IF idx = Len(files) THEN main_after("process_pages") ELSE pc
         ELSE /\ pc' = "raised"
              /\ UNCHANGED << files, stage, idx >>
    /\ UNCHANGED << srcdir, config, listing, content, tree, include_before,
                    include_after, rendered, out, events, runs >>


\* s[i..j], for j the first index from i on that holds the unit c
through(s, i, c) == SubSeq(s, i, Min({k \in i..Len(s) : s[k] = c}))

\* the fragment that step e of posts put where its match began
FragmentOf(e) == through(e.after, str_find(e.before, e.m0), PostsClose)

\* what call c on File p adds to the log of posts-index substitutions: the
\* fragment, state.posts and each post's path and metadata as they stood when
\* posts ran (title and desc of p itself had run), and the stages then
SubstitutionsOf(c) ==
    [k \in 1..Cardinality(StepsOf(c, {"posts"})) |->
        [rec |-> c.rec, posts |-> posts, stage |-> stage,
         at |-> [i \in 1..Len(posts) |->
                    [path |-> files[posts[i]].path,
                     metadata |-> IF posts[i] = c.rec THEN c.metadata
                                  ELSE files[posts[i]].metadata]],
         fragment |-> FragmentOf(c.log[Min(StepsOf(c, {"posts"}))])]]

\* One pass of the loop of preprocess_pages:
\* 'p.md = preprocess_md(state, p.metadata, p.md).unwrap()'
preprocess_pages_body(c) ==
    /\ files' = [files EXCEPT ![c.rec] = c.file]
    /\ events' = events \o SubstitutionsOf(c)
    /\ IF c.err = ""
       THEN /\ stage' = [stage EXCEPT ![c.rec] = "Preprocessed"]
            /\ idx' = IF idx = Len(files) THEN 1 ELSE idx + 1
            /\ pc' = IF idx = Len(files) THEN main_after("preprocess_pages")
                     ELSE pc
       ELSE /\ pc' = "raised"
            /\ UNCHANGED << stage, idx >>

preprocess_pages ==
    /\ pc = "preprocess_pages"
    /\ idx <= Len(files)
    /\ preprocess_pages_body(PreprocessCall(preprocess_order(posts, static_pages)[idx]))
    /\ UNCHANGED << srcdir, config, listing, content, tree, posts, static_pages,
                    include_before, include_after, rendered, out, runs >>

\* compile_files, the loop body up to the value of render_md(file.md)
compile_files_render ==
    /\ pc = "compile_files"
    /\ idx <= Len(files)
    /\ LET f == combined(posts, static_pages)[idx] IN
         /\ rendered' = render_md(files[f].md)
         /\ stage' = [stage EXCEPT ![f] = "Rendered"]
    /\ pc' = "compile_files_assign"
    /\ UNCHANGED << srcdir, config, listing, content, tree, files, posts,
                    static_pages, include_before, include_after, idx, out,
                    events, runs >>

\* compile_files: 'file.html = state.include_before + ... + state.include_after'
compile_files_assign ==
    /\ pc = "compile_files_assign"
    /\ LET f == combined(posts, static_pages)[idx] IN
         /\ files' = [files EXCEPT ![f].html =
                         include_before \o rendered \o include_after]
         /\ stage' = [stage EXCEPT ![f] = "Assembled"]
    /\ idx' = IF idx = Len(files) THEN 1 ELSE idx + 1
    /\ pc' = IF idx = Len(files) THEN main_after("compile_files") ELSE "compile_files"
    /\ UNCHANGED << srcdir, config, listing, content, tree, posts, static_pages,
                    include_before, include_after, rendered, out, events, runs >>

\* the path write_files and write_file give the output of the File at path
dest_path(path) ==
    str_replace(str_replace(path, srcdir, OutDir \o << "/" >>),
                << ".md" >>, << ".html" >>)

\* open(path, "w").write(data) in the output directory
write_file(o, path, data) ==
    {e \in o : e.path # path} \cup {[path |-> path, data |-> data]}

\* One pass of the loop of write_files
write_files ==
    /\ pc = "write_files"
    /\ idx <= Len(files)
    /\ LET f == combined(posts, static_pages)[idx] IN
         out' = write_file(out, dest_path(files[f].path), files[f].html)
    /\ idx' = IF idx = Len(files) THEN 1 ELSE idx + 1
    /\ pc' = IF idx = Len(files) THEN main_after("write_files") ELSE pc
    /\ UNCHANGED << srcdir, config, listing, content, tree, files, posts,
                    static_pages, include_before, include_after, rendered,
                    stage, events, runs >>

\* shutil.copytree(path_join(args.srcdir, config.static_src),
\*                 path_join(args.outdir, config.static_dest)):
\* path_join raises TypeError on None, copytree raises FileExistsError when
\* the destination exists.
copytree ==
    /\ pc = "copytree"
    /\ IF config.static_src = None \/ config.static_dest = None
       THEN pc' = "raised" /\ out' = out
       ELSE LET src == path_join(srcdir, config.static_src)
                dst == path_join(OutDir, config.static_dest)
            IN IF \E e \in out : e.path = dst
               THEN pc' = "raised" /\ out' = out
               ELSE /\ out' = write_file(out, dst, << "assets" >>)
                    /\ pc' = main_after("copytree")
    /\ UNCHANGED << srcdir, config, listing, content, tree, files, posts,
                    static_pages, include_before, include_after, idx, rendered,
                    stage, events, runs >>

Next ==
    \/ read_config
    \/ load_before_after_files
    \/ build_tree
    \/ process_pages
    \/ preprocess_pages
    \/ compile_files_render
    \/ compile_files_assign
    \/ write_files
    \/ copytree

Spec == Init /\ [][Next]_vars

----------------------------------------------------------------------------
(* Properties of a run, over Spec *)

Range(seq) == {seq[i] : i \in 1..Len(seq)}

AtLeast(st, least) == Rank(st) >= Rank(least)

\* the n-th index of s, from the left, that holds the unit c
NthIndex(s, c, n) ==
    CHOOSE i \in 1..Len(s) :
        s[i] = c /\ Cardinality({k \in 1..(i - 1) : s[k] = c}) = n - 1

Count(s, c) == Cardinality({i \in 1..Len(s) : s[i] = c})

\* the n-th entry of a posts-index fragment, read back from its markup
Entry(frag, n) ==
    [url |-> SubSeq(frag, NthIndex(frag, PostOpen, n) + 1,
                    NthIndex(frag, PostMid1, n) - 1),
     title |-> SubSeq(frag, NthIndex(frag, PostMid1, n) + 1,
                      NthIndex(frag, PostMid2, n) - 1),
     desc |-> SubSeq(frag, NthIndex(frag, PostMid2, n) + 1,
                     NthIndex(frag, PostClose, n) - 1)]

\* C1: preprocess_pages has preprocessed every Post before it preprocesses
\* any Page, so when the posts index of a Page is substituted every Post of
\* state.posts is preprocessed and has the title and description it keeps.
C1_PostsBeforePages ==
    /\ \A r \in 1..Len(files) :
          ~files[r].is_post /\ AtLeast(stage[r], "Preprocessed") =>
              \A q \in Range(posts) : AtLeast(stage[q], "Preprocessed")
    /\ \A k \in 1..Len(events) :
          ~files[events[k].rec].is_post =>
              \A n \in 1..Len(events[k].posts) :
                  /\ AtLeast(events[k].stage[events[k].posts[n]], "Preprocessed")
                  /\ files[events[k].posts[n]].metadata = events[k].at[n].metadata

\* C1 witness: the posts index of a Page was substituted while state.posts
\* held a Post with a title.
C1_Witness ==
    \E k \in 1..Len(events) :
        /\ ~files[events[k].rec].is_post
        /\ \E n \in 1..Len(events[k].posts) :
              events[k].at[n].metadata.title # << >>

\* C2: every posts-index fragment has one entry per Post of state.posts as
\* it stood at the substitution, in the order of the list (the order of
\* discovery), each made of that Post's path, title and description; no
\* entry is made from a Page.
C2_OneEntryPerPostInOrder ==
    \A k \in 1..Len(events) :
        LET ev == events[k] IN
        /\ Head(ev.fragment) = PostsOpen
        /\ ev.fragment[Len(ev.fragment)] = PostsClose
        /\ Count(ev.fragment, PostOpen) = Len(ev.posts)
        /\ Count(ev.fragment, PostClose) = Len(ev.posts)
        /\ \A n \in 1..Len(ev.posts) :
              /\ files[ev.posts[n]].is_post
              /\ \A m \in 1..(n - 1) : ev.posts[m] < ev.posts[n]
              /\ ev.at[n].path = files[ev.posts[n]].path
              /\ Entry(ev.fragment, n) =
                    [url |-> post_url(ev.at[n].path),
                     title |-> ev.at[n].metadata.title,
                     desc |-> ev.at[n].metadata.desc]

\* C2 witness: a posts index was substituted with two Posts in state.posts
\* and Pages discovered as well.
C2_Witness ==
    \E k \in 1..Len(events) :
        /\ Len(events[k].posts) >= 2
        /\ static_pages # << >>

\* the directory a path lies in: path[:path.rfind("/")]
Parent(path) ==
    SubSeq(path, 1, Max({i \in 1..Len(path) : path[i] = "/"}) - 1)

\* the directories in S and those listed in one of them under a name that is
\* not excluded
WithChildren(S) ==
    S \cup {d \in DOMAIN listing :
               \E up \in S : \E i \in 1..Len(listing[up]) :
                   /\ listing[up][i] \notin excluded(config)
                   /\ d = path_join(up, listing[up][i])}

RECURSIVE ReachedFrom(_, _)
ReachedFrom(S, n) == IF n = 0 THEN S ELSE ReachedFrom(WithChildren(S), n - 1)

\* the directories the walk from srcdir enters
Entered == ReachedFrom({srcdir}, Cardinality(DOMAIN listing))

\* the names listed in the directories ds that are not excluded and are no
\* directory
FilesIn(ds) ==
    UNION { {path_join(d, listing[d][i]) : i \in 1..Len(listing[d])} : d \in ds }
        \ ({path_join(d, n) : d \in ds, n \in excluded(config)}
           \cup DOMAIN listing)

\* the files the walk finds
NonExcludedFiles == FilesIn(Entered)

\* the records are the files found, each once, in one of the two lists
Found(found) ==
    /\ {files[i].path : i \in 1..Len(files)} = found
    /\ Cardinality(found) = Len(files)
    /\ Len(posts) + Len(static_pages) = Len(files)

ProcessPagesDone ==
    /\ files # << >>
    /\ \A i \in 1..Len(files) : AtLeast(stage[i], "Loaded")

\* C3: after build_file_tree and process_pages, a file is a Post (is_post,
\* in state.posts) exactly when the directory it lies in equals root joined
\* with the configured posts directory; every other file found, also one in
\* a subdirectory of the posts directory, is a Page in state.static_pages.
C3_PostIffDirectlyInPostsDir ==
    ProcessPagesDone =>
        /\ Found(NonExcludedFiles)
        /\ \A i \in 1..Len(files) :
              /\ files[i].is_post <=>
                    Parent(files[i].path) = path_join(srcdir, config.posts_dir)
              /\ files[i].is_post <=> i \in Range(posts)
              /\ ~files[i].is_post <=> i \in Range(static_pages)

\* C3 witness: process_pages is done, there is a Post, and a file in a
\* subdirectory of the posts directory is a Page.
C3_Witness ==
    /\ ProcessPagesDone
    /\ posts # << >>
    /\ \E i \in Range(static_pages) :
          StartsAt(files[i].path, 1, path_join(srcdir, config.posts_dir) \o << "/" >>)

\* the paths written in the output directory by this run's write_files
WrittenPaths == {e.path : e \in out} \ {StaticDest}

\* C4 (as claimed): a run writes every content file, or it fails and leaves
\* the output directory as it was; nothing is written before every record is
\* assembled.
C4_AllOrNothing ==
    /\ pc = "return_0" =>
          \A i \in 1..Len(files) : dest_path(files[i].path) \in WrittenPaths
    /\ pc \in {"raised", "return_1"} => out \in InitialOuts
    /\ WrittenPaths # {} =>
          \A i \in 1..Len(files) : stage[i] = "Assembled"

\* the path with everything up to and including the root directory stripped
\* and the Markdown extension replaced by the HTML extension
ExpectedHref(path) ==
    LET rest == SubSeq(path, Len(srcdir) + 1, Len(path))
        rel == IF rest # << >> /\ rest[1] = "/" THEN rest ELSE << "/" >> \o rest
    IN [i \in 1..Len(rel) |->
           IF i = Len(rel) /\ rel[i] = ".md" THEN ".html" ELSE rel[i]]

\* C5 (as claimed): the href of every entry of a posts index is the Post's
\* path with the root directory stripped and .md replaced by .html, for
\* every root directory.
C5_HrefStripsRoot ==
    \A k \in 1..Len(events) :
        \A n \in 1..Len(events[k].posts) :
            Entry(events[k].fragment, n).url = ExpectedHref(events[k].at[n].path)

\* a step keeps the stage of a record or moves it to the next one; a record
\* starts Discovered
StageStep ==
    \A r \in DOMAIN stage' :
        IF r \in DOMAIN stage
        THEN Rank(stage'[r]) \in {Rank(stage[r]), Rank(stage[r]) + 1}
        ELSE stage'[r] = "Discovered"

\* C7: every record goes through Discovered, Loaded, Preprocessed, Rendered,
\* Assembled in this order, one stage at a time and never back, and is
\* written only when it is Assembled.
C7_StagesInOrder ==
    /\ [][StageStep]_vars
    /\ [](\A i \in 1..Len(files) :
            dest_path(files[i].path) \in WrittenPaths => stage[i] = "Assembled")

\* C7 witness: the run has ended with its records assembled and written.
C7_Witness ==
    /\ pc = "return_0"
    /\ files # << >>
    /\ \A i \in 1..Len(files) :
          stage[i] = "Assembled" /\ dest_path(files[i].path) \in WrittenPaths

====
